---- MODULE Spec2Model ----
(***************************************************************************)
(* A model of src/structures/client.ts: the IPC transport of a rich        *)
(* presence client (IpcTransport), its socket locator (getSocket over      *)
(* pathList), its frame codec (send and the "readable" handler) and the    *)
(* publish/subscribe helper (EventEmitter) through which it notifies the   *)
(* Client.                                                                 *)
(*                                                                         *)
(* Bytes are integers 0..255; a Buffer is a sequence of bytes.  JSON       *)
(* values are tagged records, JSON text is a sequence of ASCII bytes.      *)
(***************************************************************************)
EXTENDS Integers, Sequences, FiniteSets, TLC

\* ------------------------------------------------------------------------
\* Bounds of the model
\* ------------------------------------------------------------------------

\* connect() calls that are pending or have run to their end (each of the
\* latter has added listeners that are never removed)
MaxConnects == 2
\* underlying streams created over a run
MaxSockets == 2
\* close() calls that await the close of one stream
MaxCloses == 2
\* candidate sockets on which a peer listens, in the locator's environments
MaxReachable == 2
MaxListeners == 3

\* ------------------------------------------------------------------------
\* ASCII text
\* ------------------------------------------------------------------------

Lower == <<"a","b","c","d","e","f","g","h","i","j","k","l","m",
           "n","o","p","q","r","s","t","u","v","w","x","y","z">>
Upper == <<"A","B","C","D","E","F","G","H","I","J","K","L","M",
           "N","O","P","Q","R","S","T","U","V","W","X","Y","Z">>
Digits == <<"0","1","2","3","4","5","6","7","8","9">>

IndexIn(seq, c) == CHOOSE i \in 1..Len(seq) : seq[i] = c

InSeq(seq, c) == \E i \in 1..Len(seq) : seq[i] = c

\* The ASCII code of a one-character string.
Code(c) ==
  IF InSeq(Lower, c) THEN 96 + IndexIn(Lower, c)
  ELSE IF InSeq(Upper, c) THEN 64 + IndexIn(Upper, c)
  ELSE IF InSeq(Digits, c) THEN 47 + IndexIn(Digits, c)
  ELSE CASE c = " " -> 32
         [] c = "\"" -> 34
         [] c = "," -> 44
         [] c = "-" -> 45
         [] c = ":" -> 58
         [] c = "\\" -> 92
         [] c = "_" -> 95
         [] c = "{" -> 123
         [] c = "}" -> 125

\* The bytes of a text given as a tuple of one-character strings.
Txt(chars) == [i \in 1..Len(chars) |-> Code(chars[i])]

\* The literals of JSON.
NullText == Txt(<<"n","u","l","l">>)
TrueText == Txt(<<"t","r","u","e">>)
FalseText == Txt(<<"f","a","l","s","e">>)

\* ------------------------------------------------------------------------
\* JSON values
\* ------------------------------------------------------------------------

\* A value is the pair of its type and its content, so that two values of
\* different types compare by type.
Undefined == <<"undefined", <<>>>>
JNull == <<"null", <<>>>>
JBool(b) == <<"bool", b>>
JNum(n) == <<"num", n>>
JStr(s) == <<"str", s>>
\* An object is the sequence of its members <<key, value>>, in insertion order.
JObj(members) == <<"obj", members>>

Tag(v) == v[1]
Val(v) == v[2]

\* JavaScript's ToBoolean, as the conditional of send() applies it to payload.
Truthy(v) ==
  CASE Tag(v) = "undefined" -> FALSE
    [] Tag(v) = "null" -> FALSE
    [] Tag(v) = "bool" -> Val(v)
    [] Tag(v) = "num" -> Val(v) # 0
    [] Tag(v) = "str" -> Val(v) # <<>>
    [] Tag(v) = "obj" -> TRUE

RECURSIVE DigitsOf(_)
DigitsOf(n) ==
  IF n < 10 THEN <<48 + n>> ELSE Append(DigitsOf(n \div 10), 48 + (n % 10))

RECURSIVE QuoteChars(_)
QuoteChars(s) ==
  IF s = <<>> THEN <<>>
  ELSE (IF Head(s) \in {34, 92} THEN <<92, Head(s)>> ELSE <<Head(s)>>)
       \o QuoteChars(Tail(s))

Quote(s) == <<34>> \o QuoteChars(s) \o <<34>>

RECURSIVE JSONstringify(_)
RECURSIVE StringifyMembers(_, _)
\* The members of an object, comma separated; a member whose value is
\* undefined is left out.
StringifyMembers(ms, first) ==
  IF ms = <<>> THEN <<>>
  ELSE IF Tag(Head(ms)[2]) = "undefined" THEN StringifyMembers(Tail(ms), first)
  ELSE (IF first THEN <<>> ELSE <<44>>)
       \o Quote(Head(ms)[1]) \o <<58>> \o JSONstringify(Head(ms)[2])
       \o StringifyMembers(Tail(ms), FALSE)

\* JSON.stringify of a value that is not undefined.
JSONstringify(v) ==
  CASE Tag(v) = "null" -> NullText
    [] Tag(v) = "bool" -> IF Val(v) THEN TrueText ELSE FalseText
    [] Tag(v) = "num" -> IF Val(v) < 0 THEN <<45>> \o DigitsOf(-Val(v))
                         ELSE DigitsOf(Val(v))
    [] Tag(v) = "str" -> Quote(Val(v))
    [] Tag(v) = "obj" -> <<123>> \o StringifyMembers(Val(v), TRUE) \o <<125>>

\* ---- JSON.parse: a recursive descent over the bytes ----
\* A parse step yields [ok, v, i]: success, the value, the next index.

Fail == [ok |-> FALSE, v |-> Undefined, i |-> 0]
Got(v, i) == [ok |-> TRUE, v |-> v, i |-> i]

RECURSIVE SkipWs(_, _)
SkipWs(b, i) == IF i <= Len(b) /\ b[i] = 32 THEN SkipWs(b, i + 1) ELSE i

\* Whether the bytes of word stand at index i of b.
StartsWith(b, i, word) ==
  /\ i + Len(word) - 1 <= Len(b)
  /\ \A k \in 1..Len(word) : b[i + k - 1] = word[k]

\* The characters of a string whose opening quote has been consumed.
RECURSIVE ParseChars(_, _, _)
ParseChars(b, i, acc) ==
  IF i > Len(b) THEN Fail
  ELSE IF b[i] = 34 THEN Got(JStr(acc), i + 1)
  ELSE IF b[i] = 92
    THEN IF i + 1 <= Len(b) /\ b[i + 1] \in {34, 92}
         THEN ParseChars(b, i + 2, Append(acc, b[i + 1]))
         ELSE Fail
  ELSE IF b[i] < 32 THEN Fail
  ELSE ParseChars(b, i + 1, Append(acc, b[i]))

\* The digits of a number after its first digit; sign is 1 or -1.
RECURSIVE ParseDigits(_, _, _, _)
ParseDigits(b, i, acc, sign) ==
  IF i <= Len(b) /\ b[i] \in 48..57
  THEN ParseDigits(b, i + 1, 10 * acc + (b[i] - 48), sign)
  ELSE Got(JNum(sign * acc), i)

\* An integer from its first digit, at index i (no fraction, no exponent).
ParseInt(b, i, sign) ==
  IF i > Len(b) THEN Fail
  ELSE IF b[i] = 48 THEN Got(JNum(0), i + 1)
  ELSE IF b[i] \in 49..57 THEN ParseDigits(b, i + 1, b[i] - 48, sign)
  ELSE Fail

RECURSIVE ParseValue(_, _)
RECURSIVE ParseMembers(_, _, _)
\* The members of an object from index i, which stands at a key.
ParseMembers(b, i, acc) ==
  IF ~(i <= Len(b) /\ b[i] = 34) THEN Fail
  ELSE LET key == ParseChars(b, i + 1, <<>>) IN
    IF ~key.ok THEN Fail
    ELSE LET c == SkipWs(b, key.i) IN
      IF ~(c <= Len(b) /\ b[c] = 58) THEN Fail
      ELSE LET val == ParseValue(b, c + 1) IN
        IF ~val.ok THEN Fail
        ELSE LET n == SkipWs(b, val.i)
                 ms == Append(acc, <<Val(key.v), val.v>>) IN
          IF n > Len(b) THEN Fail
          ELSE IF b[n] = 125 THEN Got(JObj(ms), n + 1)
          ELSE IF b[n] = 44 THEN ParseMembers(b, SkipWs(b, n + 1), ms)
          ELSE Fail

ParseValue(b, i0) ==
  LET i == SkipWs(b, i0) IN
  IF i > Len(b) THEN Fail
  ELSE IF StartsWith(b, i, NullText) THEN Got(JNull, i + 4)
  ELSE IF StartsWith(b, i, TrueText) THEN Got(JBool(TRUE), i + 4)
  ELSE IF StartsWith(b, i, FalseText) THEN Got(JBool(FALSE), i + 5)
  ELSE IF b[i] = 45 THEN ParseInt(b, i + 1, -1)
  ELSE IF b[i] \in 48..57 THEN ParseInt(b, i, 1)
  ELSE IF b[i] = 34 THEN ParseChars(b, i + 1, <<>>)
  ELSE IF b[i] = 123
    THEN LET m == SkipWs(b, i + 1) IN
         IF m <= Len(b) /\ b[m] = 125 THEN Got(JObj(<<>>), m + 1)
         ELSE ParseMembers(b, m, <<>>)
  ELSE Fail

\* JSON.parse of a text: the value, or ok = FALSE where it throws SyntaxError
\* (the empty text included).
JSONparse(b) ==
  LET r == ParseValue(b, 1) IN
  IF r.ok /\ SkipWs(b, r.i) = Len(b) + 1 THEN r ELSE Fail

\* ------------------------------------------------------------------------
\* Frame codec
\* ------------------------------------------------------------------------

\* enum IPC_OPERATION
HANDSHAKE == 0
FRAME == 1
CLOSE == 2
PING == 3
PONG == 4

\* Buffer.writeUInt32LE: the four bytes of n, least significant first.
writeUInt32LE(n) ==
  <<n % 256, (n \div 256) % 256, (n \div 65536) % 256, (n \div 16777216) % 256>>

\* A read of the four bytes most significant first, as readUInt32BE does.
readUInt32BE(data, offset) ==
  data[offset + 4] + 256 * data[offset + 3] + 65536 * data[offset + 2]
    + 16777216 * data[offset + 1]

\* Buffer.readUInt32LE at a byte offset (from 0).
readUInt32LE(data, offset) ==
  data[offset + 1] + 256 * data[offset + 2] + 65536 * data[offset + 3]
    + 16777216 * data[offset + 4]

\* The bytes send() hands to socket.write for an operation and a payload.
Packet(operation, payload) ==
  LET dataBuffer == IF Truthy(payload) THEN JSONstringify(payload) ELSE <<>>
  IN writeUInt32LE(operation) \o writeUInt32LE(Len(dataBuffer)) \o dataBuffer

\* What the "readable" handler makes of the bytes it drained: nothing
\* ("empty"), a malformed packet, or an operation and its parsed payload.
Decode(data) ==
  IF Len(data) < 8
  THEN [status |-> IF Len(data) = 0 THEN "empty" ELSE "malformed",
        op |-> 0, v |-> Undefined]
  ELSE LET op == readUInt32LE(data, 0)
           length == readUInt32LE(data, 4) IN
       IF Len(data) # length + 8
       THEN [status |-> "malformed", op |-> op, v |-> Undefined]
       ELSE LET parsedData == JSONparse(SubSeq(data, 9, length + 8)) IN
            IF ~parsedData.ok
            THEN [status |-> "malformed", op |-> op, v |-> Undefined]
            ELSE [status |-> "ok", op |-> op, v |-> parsedData.v]

\* ------------------------------------------------------------------------
\* Socket locator
\* ------------------------------------------------------------------------

\* The number of socket ids getSocket tries for each rule (ids 0 .. IdCount-1).
IdCount == 10

\* process.env without a variable
Unset == "<unset>"

\* pathList.  A rule's format(id) yields the path [dir, id]: dir is the
\* directory of the socket (a sequence of components) and id the number that
\* ends its file name discord-ipc-<id>.  The pipe rule reads no directory; the
\* others put sub under the runtime directory.
pathList ==
  << [platform |-> {"win32"}, pipe |-> TRUE, sub |-> <<>>],
     [platform |-> {"darwin", "linux"}, pipe |-> FALSE, sub |-> <<>>],
     [platform |-> {"linux"}, pipe |-> FALSE, sub |-> <<"snap.discord">>],
     [platform |-> {"linux"}, pipe |-> FALSE,
      sub |-> <<"app", "com.discordapp.Discord">>] >>

PipeDir == <<"\\\\?\\pipe">>

\* XDG_RUNTIME_DIR ?? TMPDIR ?? TMP ?? TEMP ?? `${path.sep}tmp`, over
\* e.vars = <<XDG_RUNTIME_DIR, TMPDIR, TMP, TEMP>>.
RECURSIVE Coalesce(_, _)
Coalesce(vars, default) ==
  IF vars = <<>> THEN default
  ELSE IF Head(vars) # Unset THEN Head(vars)
  ELSE Coalesce(Tail(vars), default)

Prefix(e) == Coalesce(e.vars, "/tmp")

\* format(id) of a rule: thrown = TRUE where fs.realpathSync throws (the
\* runtime directory does not exist), else the path.
format(e, pat, id) ==
  IF pat.pipe THEN [thrown |-> FALSE, path |-> [dir |-> PipeDir, id |-> id]]
  ELSE IF <<Prefix(e)>> \notin e.dirs
       THEN [thrown |-> TRUE, path |-> [dir |-> <<>>, id |-> id]]
  ELSE [thrown |-> FALSE, path |-> [dir |-> <<Prefix(e)>> \o pat.sub, id |-> id]]

\* createSocket(path): it resolves when a peer listens on the path.
createSocket(e, path) == path \in e.listening

\* handleSocketId(id) for a rule: "skip" (undefined without a connection
\* attempt), "throw", "fail" (a connection attempt that was refused) or
\* "socket" (a connection).
handleSocketId(e, pat, id) ==
  IF e.platform \notin pat.platform THEN [out |-> "skip", path |-> <<>>]
  ELSE LET f == format(e, pat, id) IN
    IF f.thrown THEN [out |-> "throw", path |-> <<>>]
    ELSE IF e.platform # "win32" /\ f.path.dir \notin e.dirs
      THEN [out |-> "skip", path |-> <<>>]
    ELSE [out |-> IF createSocket(e, f.path) THEN "socket" ELSE "fail",
          path |-> <<f.path>>]

\* The loops of getSocket from rule r and id i on: the connection attempts
\* made, in order, and how the search ends.
RECURSIVE Search(_, _, _, _)
Search(e, r, i, attempts) ==
  IF r > Len(pathList)
  THEN [result |-> "Could not connect", attempts |-> attempts, path |-> <<>>]
  ELSE IF i >= IdCount THEN Search(e, r + 1, 0, attempts)
  ELSE LET h == handleSocketId(e, pathList[r], i) IN
    CASE h.out = "skip" -> Search(e, r, i + 1, attempts)
      [] h.out = "throw" ->
           [result |-> "ENOENT", attempts |-> attempts, path |-> <<>>]
      [] h.out = "fail" -> Search(e, r, i + 1, attempts \o h.path)
      [] h.out = "socket" ->
           [result |-> "socket", attempts |-> attempts \o h.path,
            path |-> h.path]

\* A search whose id loop starts at 1.
getSocketFromOne(e) == Search(e, 1, 1, <<>>)

\* getSocket() of a transport that holds no socket.
getSocket(e) == Search(e, 1, 0, <<>>)

\* ------------------------------------------------------------------------
\* State
\* ------------------------------------------------------------------------

VARIABLES
  env,         \* the platform, the environment variables, the directories
               \* that exist and the paths on which a peer listens
  socket,      \* this.socket of the transport: a stream, or 0 for undefined
  socks,       \* each stream: its readyState rs ("none" while not created),
               \* its "readable" listeners, its once("close") listeners and
               \* the operation of the first frame written to it
  tListeners,  \* #listeners of the transport: topic -> callbacks, in order
  pending,     \* connect() calls that await getSocket()
  located,     \* what the last two getSocket() searches ended with
               \* ([result, path] each), the last one last
  lastOp       \* the last operation: its arguments, the effects it had in
               \* order (fx) and its result

vars == <<env, socket, socks, tListeners, pending, located, lastOp>>

Sockets == 1..MaxSockets

\* ------------------------------------------------------------------------
\* EventEmitter
\* ------------------------------------------------------------------------

\* on(event, callback): the callback is added after those registered.
on(listeners, event, callback) ==
  [listeners EXCEPT ![event] = Append(@, callback)]

\* The effects of an operation are gathered in a record st: the transport's
\* socket, each stream's readyState and first frame, the effects so far, and
\* err, the exception thrown and not caught ("" for none).

Effect(st, e) == [st EXCEPT !.fx = Append(@, e)]

\* Client.emit(topic, val): the application's handlers are called.
ClientEmit(st, topic, val) ==
  Effect(st, [k |-> "client.emit", topic |-> topic, val |-> val])

\* The member of an object, undefined where it has none (the last of two
\* members of the same key, as JSON.parse keeps it).
Member(v, key) ==
  IF Tag(v) # "obj" THEN Undefined
  ELSE LET ms == Val(v)
           is == {i \in 1..Len(ms) : ms[i][1] = key}
       IN IF is = {} THEN Undefined
          ELSE ms[CHOOSE i \in is : \A j \in is : j <= i][2]

\* The words the model tells apart (event names, keys), with their bytes.
Words ==
  << <<"close", Txt(<<"c","l","o","s","e">>)>>,
     <<"ready", Txt(<<"r","e","a","d","y">>)>>,
     <<"READY", Txt(<<"R","E","A","D","Y">>)>>,
     <<"debug", Txt(<<"d","e","b","u","g">>)>>,
     <<"cmd", Txt(<<"c","m","d">>)>>,
     <<"evt", Txt(<<"e","v","t">>)>>,
     <<"data", Txt(<<"d","a","t","a">>)>>,
     <<"DISPATCH", Txt(<<"D","I","S","P","A","T","C","H">>)>>,
     <<"args", Txt(<<"a","r","g","s">>)>>,
     <<"nonce", Txt(<<"n","o","n","c","e">>)>>,
     <<"pid", Txt(<<"p","i","d">>)>>,
     <<"code", Txt(<<"c","o","d","e">>)>>,
     <<"message", Txt(<<"m","e","s","s","a","g","e">>)>>,
     <<"SET_ACTIVITY",
       Txt(<<"S","E","T","_","A","C","T","I","V","I","T","Y">>)>>,
     <<"ACTIVITY_JOIN",
       Txt(<<"A","C","T","I","V","I","T","Y","_","J","O","I","N">>)>> >>

Bytes(word) == Words[CHOOSE i \in 1..Len(Words) : Words[i][1] = word][2]

\* The topic a value names when it is passed to emit as the event.
TopicOf(v) ==
  IF Tag(v) # "str" THEN "<not a string>"
  ELSE IF \E i \in 1..Len(Words) : Words[i][2] = Val(v)
       THEN Words[CHOOSE i \in 1..Len(Words) : Words[i][2] = Val(v)][1]
       ELSE "<other>"

\* The callback the Client's constructor registers for "message".
ClientOnMessage(st, message) ==
  IF Tag(message) \in {"null", "undefined"}
  THEN [st EXCEPT !.err = "TypeError"]
  ELSE IF /\ Member(message, Bytes("cmd")) = JStr(Bytes("DISPATCH"))
          /\ Member(message, Bytes("evt")) = JStr(Bytes("READY"))
       THEN ClientEmit(st, "ready", Undefined)
       ELSE ClientEmit(st, TopicOf(Member(message, Bytes("evt"))),
                       Member(message, Bytes("data")))

\* The callback connect() registers for "close".
TransportOnClose(st, reason) ==
  ClientEmit([st EXCEPT !.socket = 0], "close", reason)

\* A callback is called with the value: the two callbacks of the program,
\* and a callback of the application, which returns.
Call(st, callback, val) ==
  LET st1 == Effect(st, [k |-> "call", callback |-> callback, val |-> val])
  IN CASE callback = "Client.onMessage" -> ClientOnMessage(st1, val)
       [] callback = "IpcTransport.onClose" -> TransportOnClose(st1, val)
       [] OTHER -> st1

RECURSIVE CallEach(_, _, _)
CallEach(st, callbacks, val) ==
  IF callbacks = <<>> \/ st.err # "" THEN st
  ELSE CallEach(Call(st, Head(callbacks), val), Tail(callbacks), val)

\* An emit that calls the first callback of the event only.
emitFirst(st, event, val) ==
  CallEach(Effect(st, [k |-> "emit", topic |-> event, val |-> val]),
           IF tListeners[event] = <<>> THEN <<>>
           ELSE <<Head(tListeners[event])>>, val)

\* emit(event, val) on the transport: every callback of the event is called,
\* in the order of registration.
emit(st, event, val) ==
  CallEach(Effect(st, [k |-> "emit", topic |-> event, val |-> val]),
           tListeners[event], val)

\* ------------------------------------------------------------------------
\* IpcTransport
\* ------------------------------------------------------------------------

\* get isConnected
isConnected(st) == st.socket # 0 /\ st.rs[st.socket] = "open"

\* A send that writes to this.socket without the optional chaining: it throws
\* where there is no socket.
sendUnguarded(st, operation, payload) ==
  LET st1 == ClientEmit(st, "debug", "CLIENT => SERVER") IN
  IF st1.socket = 0 THEN [st1 EXCEPT !.err = "TypeError"]
  ELSE [Effect(st1, [k |-> "write", sock |-> st1.socket,
                     pkt |-> Packet(operation, payload),
                     rs |-> st1.rs[st1.socket]])
        EXCEPT !.first[st1.socket] = IF @ = <<>> THEN <<operation>> ELSE @]

\* send(operation, payload): the frame is written to this.socket if there is
\* one; the effect keeps the stream's readyState at the time of the write.
send(st, operation, payload) ==
  LET st1 == ClientEmit(st, "debug", "CLIENT => SERVER") IN
  IF st1.socket = 0 THEN st1
  ELSE [Effect(st1, [k |-> "write", sock |-> st1.socket,
                     pkt |-> Packet(operation, payload),
                     rs |-> st1.rs[st1.socket]])
        EXCEPT !.first[st1.socket] = IF @ = <<>> THEN <<operation>> ELSE @]

\* A diagnostic that also drops the connection.
MalformedDrop(st) ==
  ClientEmit([st EXCEPT !.socket = 0], "debug", "Malformed packet")

Malformed(st) == ClientEmit(st, "debug", "Malformed packet")

\* The "readable" listener of connect(), run when avail are the bytes that
\* this.socket has to read: the bytes it drains (none unless connected), and
\* what it does with them.
Drained(st, avail) == IF isConnected(st) THEN avail ELSE <<>>

\* A listener that takes the frames of the other operations for messages.
onReadableDefault(st, avail) ==
  LET data == Drained(st, avail)
      st1 == IF data # <<>> THEN ClientEmit(st, "debug", "chunk") ELSE st
      d == Decode(data)
  IN CASE d.status = "empty" -> st1
       [] d.status = "malformed" -> Malformed(st1)
       [] d.status = "ok" ->
          LET st2 == ClientEmit(st1, "debug", "SERVER => CLIENT") IN
          CASE d.op = CLOSE -> emit(st2, "close", d.v)
            [] d.op = PING -> emit(send(st2, PONG, d.v), "ping", Undefined)
            [] OTHER -> emit(st2, "message", d.v)

onReadable(st, avail) ==
  LET data == Drained(st, avail)
      st1 == IF data # <<>> THEN ClientEmit(st, "debug", "chunk") ELSE st
      d == Decode(data)
  IN CASE d.status = "empty" -> st1
       [] d.status = "malformed" -> Malformed(st1)
       [] d.status = "ok" ->
          LET st2 == ClientEmit(st1, "debug", "SERVER => CLIENT") IN
          CASE d.op = FRAME -> emit(st2, "message", d.v)
            [] d.op = CLOSE -> emit(st2, "close", d.v)
            [] d.op = PING -> emit(send(st2, PONG, d.v), "ping", Undefined)
            [] OTHER -> st2

\* The n "readable" listeners of a stream, called in turn: what one drains is
\* no longer there for the next, and an exception ends the calls.
RECURSIVE CallReaders(_, _, _)
CallReaders(st, n, avail) ==
  IF n = 0 \/ st.err # "" THEN st
  ELSE CallReaders(onReadable(st, avail), n - 1,
                   IF isConnected(st) THEN <<>> ELSE avail)

\* options.clientId
clientId == JStr(Txt(<<"1","2","3">>))

HandshakePayload ==
  JObj(<< <<Txt(<<"v">>), JNum(1)>>,
          <<Txt(<<"c","l","i","e","n","t","_","i","d">>), clientId>> >>)

\* A connect() that sends the handshake before it emits "open".
OpenedAfterHandshake(st) ==
  LET st1 == emit(send(st, HANDSHAKE, HandshakePayload), "open", Undefined)
  IN Effect(Effect(st1, [k |-> "socket.on", topic |-> "readable",
                         sock |-> st1.socket]),
            [k |-> "on", topic |-> "close"])

\* connect() once this.socket is set: "open" is emitted, the handshake sent,
\* the "readable" listener registered on this.socket and the "close" listener
\* on the transport (the operation adds them to the state).
Opened(st) ==
  LET st1 == send(emit(st, "open", Undefined), HANDSHAKE, HandshakePayload)
  IN Effect(Effect(st1, [k |-> "socket.on", topic |-> "readable",
                         sock |-> st1.socket]),
            [k |-> "on", topic |-> "close"])

\* The reason close() gives.
ClosedByClient ==
  JObj(<< <<Bytes("code"), JNum(-1)>>,
          <<Bytes("message"),
            JStr(Txt(<<"C","l","o","s","e","d"," ","b","y"," ",
                       "c","l","i","e","n","t">>))>> >>)

\* A once("close") listener that resolves the promise before it announces
\* the close.
OnSocketCloseResolveFirst(st) ==
  LET st1 == emit(Effect(st, [k |-> "resolve"]), "close", ClosedByClient) IN
  IF st1.err # "" THEN st1 ELSE [st1 EXCEPT !.socket = 0]

\* The once("close") listener of close(): the close is announced, this.socket
\* cleared and the promise resolved.
OnSocketClose(st) ==
  LET st1 == emit(st, "close", ClosedByClient) IN
  IF st1.err # "" THEN st1
  ELSE Effect([st1 EXCEPT !.socket = 0], [k |-> "resolve"])

RECURSIVE CallClosers(_, _)
CallClosers(st, n) ==
  IF n = 0 \/ st.err # "" THEN st
  ELSE CallClosers(OnSocketClose(st), n - 1)

\* ------------------------------------------------------------------------
\* Inputs
\* ------------------------------------------------------------------------

\* A frame as the peer puts it on the wire: the header and the JSON text.
Wire(op, text) == writeUInt32LE(op) \o writeUInt32LE(Len(text)) \o text

\* The payload Client.#request sends: { cmd, args, nonce }.
Request(args) ==
  JObj(<< <<Bytes("cmd"), JStr(Bytes("SET_ACTIVITY"))>>,
          <<Bytes("args"), args>>,
          <<Bytes("nonce"), JStr(Txt(<<"n","1">>))>> >>)

\* An inbound message { cmd, evt, data }.
Message(evt, data) ==
  JObj(<< <<Bytes("cmd"), JStr(Bytes("DISPATCH"))>>,
          <<Bytes("evt"), JStr(Bytes(evt))>>,
          <<Bytes("data"), data>> >>)

\* The falsy JSON values.
Falsy == {JNull, JBool(FALSE), JNum(0), JStr(<<>>)}

\* The payloads given to send().
Payloads ==
  Falsy \cup
  { JBool(TRUE), JNum(1), JNum(7), JNum(10), JNum(256), JNum(-1),
    JStr(Txt(<<"a">>)), JStr(Txt(<<"a","\"","b">>)), JStr(Txt(<<"\\">>)),
    JObj(<<>>), HandshakePayload, ClosedByClient,
    Request(JObj(<< <<Bytes("pid"), JNum(0)>> >>)),
    Message("READY", JObj(<<>>)) }

\* The arguments of a send() call: none, the operation, or both.
SendArgs ==
  {<<>>} \cup {<<op>> : op \in HANDSHAKE..PONG}
         \cup {<<op, p>> : op \in HANDSHAKE..PONG, p \in Payloads}

Operation(args) == IF Len(args) >= 1 THEN args[1] ELSE FRAME
Payload(args) == IF Len(args) >= 2 THEN args[2] ELSE Undefined

\* The send() calls of the transport's runs.
RunSendArgs ==
  { <<>>, <<PING>>, <<FRAME, JNum(0)>>,
    <<FRAME, Request(JObj(<< <<Bytes("pid"), JNum(0)>> >>))>>,
    <<FRAME, Request(Undefined)>>, <<PONG, JStr(Txt(<<"a">>))>> }

\* The valid frames a peer sends.
ValidFrames ==
  { Wire(FRAME, JSONstringify(Message("READY", JObj(<<>>)))),
    Wire(FRAME, JSONstringify(Message("ACTIVITY_JOIN", JNum(1)))),
    Wire(FRAME, JSONstringify(JNum(7))),
    Wire(FRAME, JSONstringify(JNull)),
    Wire(FRAME, JSONstringify(Message("close", JNum(1)))),
    Wire(CLOSE, JSONstringify(JObj(<< <<Bytes("code"), JNum(1000)>> >>))),
    Wire(CLOSE, <<123, 32, 34, 97, 34, 58, 32, 49, 125, 32>>),
    Wire(PING, JSONstringify(JNum(0))),
    Wire(PING, JSONstringify(JNull)),
    Wire(PING, JSONstringify(JBool(FALSE))),
    Wire(PING, JSONstringify(JStr(<<>>))),
    Wire(PING, JSONstringify(JStr(Txt(<<"a">>)))),
    Wire(PING, JSONstringify(JObj(<< <<Bytes("pid"), JNum(1)>> >>))),
    Wire(PONG, JSONstringify(JStr(Txt(<<"a">>)))),
    Wire(HANDSHAKE, JSONstringify(HandshakePayload)),
    Wire(7, JSONstringify(JNum(1))) }

\* Bytes that are no valid frame: too short (the first 7 bytes of a PING
\* frame, and the 2 bytes that end it), a declared length that differs
\* from the payload's (in its low byte, in a high byte, by a second frame
\* that follows the first), a payload that is no JSON text.
MalformedDrains ==
  { <<1>>, <<1, 0, 0, 0, 0>>, <<3, 0, 0, 0, 1, 0, 0>>, <<0, 48>>,
    <<3, 0, 0, 0, 2, 0, 0, 0, 48>>,
    <<3, 0, 0, 0, 0, 0, 0, 0, 48>>,
    <<3, 0, 0, 0, 1, 1, 0, 0, 48>>,
    <<3, 0, 0, 0, 1, 0, 0, 1, 48>>,
    <<1, 0, 0, 0, 0, 0, 0, 1, 49>>,
    Wire(PING, JSONstringify(JNum(1))) \o Wire(PING, JSONstringify(JNum(2))),
    Wire(PING, <<>>), Wire(FRAME, <<123>>), Wire(CLOSE, <<48, 49>>),
    Wire(FRAME, <<123, 34, 97, 34, 125>>) }

\* What this.socket may have to read when a "readable" event is handled.
Drains == {<<>>} \cup ValidFrames \cup MalformedDrains

\* ---- environments ----

\* The directories under a runtime directory p, with p.
DirsUnder(p) ==
  { <<p>>, <<p, "snap.discord">>, <<p, "app">>,
    <<p, "app", "com.discordapp.Discord">> }

\* A file system holds the parent of each directory it holds.
ParentClosed(dirs) ==
  \A d \in dirs : Len(d) > 1 => SubSeq(d, 1, Len(d) - 1) \in dirs

\* The paths getSocket can try on a platform, where the directories exist.
Candidates(platform, vs, dirs) ==
  { [dir |-> d, id |-> i] :
      d \in { c \in {PipeDir} \cup dirs :
                \E r \in 1..Len(pathList) :
                  /\ platform \in pathList[r].platform
                  /\ IF pathList[r].pipe THEN c = PipeDir
                     ELSE c = <<Coalesce(vs, "/tmp")>> \o pathList[r].sub },
      i \in 0..(IdCount - 1) }

\* The subsets of S of at most n elements.
RECURSIVE AtMost(_, _)
AtMost(S, n) ==
  IF n = 0 THEN {{}}
  ELSE LET smaller == AtMost(S, n - 1)
       IN smaller \cup { x \cup {a} : x \in smaller, a \in S }

\* The environments of the locator's runs: /tmp exists, and a peer listens
\* only where the directory of the path exists.
VarChoices ==
  { <<Unset, Unset, Unset, Unset>>, <<"/run/user", "/var/tmp", Unset, Unset>>,
    <<Unset, "/var/tmp", Unset, "/temp">> }

Envs(platforms, n) ==
  UNION { UNION { UNION {
    { [platform |-> pf, vars |-> vs, dirs |-> ds \cup {<<"/tmp">>},
       listening |-> l] :
        l \in AtMost(Candidates(pf, vs, ds \cup {<<"/tmp">>}), n) } :
      ds \in { x \in SUBSET DirsUnder(Coalesce(vs, "/tmp")) : ParentClosed(x) } } :
    vs \in VarChoices } : pf \in platforms }

Platforms == {"win32", "darwin", "linux", "freebsd"}

\* The environments of the transport's runs: a peer at the second id of the
\* runtime directory, no peer, and a runtime directory that does not exist.
RunEnvs ==
  { [platform |-> "linux", vars |-> <<"/run/user", Unset, Unset, Unset>>,
     dirs |-> {<<"/tmp">>, <<"/run/user">>},
     listening |-> {[dir |-> <<"/run/user">>, id |-> 1]}],
    [platform |-> "linux", vars |-> <<Unset, Unset, Unset, Unset>>,
     dirs |-> {<<"/tmp">>}, listening |-> {}],
    [platform |-> "darwin", vars |-> <<Unset, "/var/tmp", Unset, Unset>>,
     dirs |-> {<<"/tmp">>}, listening |-> {}] }

\* ------------------------------------------------------------------------
\* Initial state
\* ------------------------------------------------------------------------

NoOp ==
  [op |-> "init", args |-> <<>>, sock |-> 0, data |-> <<>>, status |-> "",
   dec |-> <<>>, fx |-> <<>>, res |-> "", err |-> "", attempts |-> <<>>]

\* The transport a Client constructs: no socket, and the Client's callback
\* registered for "message".
Constructed ==
  /\ socket = 0
  /\ socks = [s \in Sockets |->
                [rs |-> "none", readers |-> 0, closers |-> 0, first |-> <<>>]]
  /\ tListeners = on([message |-> <<>>, close |-> <<>>, ping |-> <<>>,
                      open |-> <<>>], "message", "Client.onMessage")
  /\ pending = 0
  /\ located = <<>>
  /\ lastOp = NoOp

Init == env \in RunEnvs /\ Constructed

\* ------------------------------------------------------------------------
\* Operations
\* ------------------------------------------------------------------------

\* The record an operation starts from.
St0 ==
  [socket |-> socket, rs |-> [s \in Sockets |-> socks[s].rs],
   first |-> [s \in Sockets |-> socks[s].first], fx |-> <<>>, err |-> ""]

\* The operation recorded as the last one.
Op(name, args, st) ==
  [NoOp EXCEPT !.op = name, !.args = args, !.fx = st.fx, !.err = st.err]

\* The state an operation leaves: sk is socks with the operation's changes
\* to the streams' readyState and listeners.
Commit(st, sk) ==
  /\ socket' = st.socket
  /\ socks' = [s \in Sockets |-> [sk[s] EXCEPT !.first = st.first[s]]]

\* An uncaught exception ends the process.
Alive == lastOp.err = ""

\* The last two elements of a sequence.
Last2(seq) == IF Len(seq) <= 2 THEN seq ELSE SubSeq(seq, Len(seq) - 1, Len(seq))

\* The bound on connect() calls.
MayConnect == Len(tListeners.close) + pending < MaxConnects

\* connect() when this.socket is set: it runs to its end at once, on the
\* socket the transport holds.
ConnectNow ==
  /\ Alive /\ MayConnect
  /\ socket # 0
  /\ LET st == Opened(St0) IN
       /\ Commit(st, [socks EXCEPT ![st.socket].readers = @ + 1])
       /\ tListeners' = on(tListeners, "close", "IpcTransport.onClose")
       /\ lastOp' = [Op("connect", <<>>, st) EXCEPT !.res = "connected"]
  /\ UNCHANGED <<env, pending, located>>

\* connect() when this.socket is undefined: it awaits getSocket().
ConnectAwait ==
  /\ Alive /\ MayConnect
  /\ socket = 0
  /\ pending' = pending + 1
  /\ lastOp' = [Op("connect", <<>>, St0) EXCEPT !.res = "pending"]
  /\ UNCHANGED <<env, socket, socks, tListeners, located>>

\* getSocket() found a peer: the connect() that awaited it sets this.socket
\* to the new stream and runs to its end.
ConnectResume ==
  /\ Alive /\ pending > 0
  /\ LET run == getSocket(env) IN
       /\ run.result = "socket"
       /\ \E s \in Sockets :
            /\ socks[s].rs = "none"
            /\ \A u \in Sockets : socks[u].rs = "none" => s <= u
            /\ LET st == Opened([St0 EXCEPT !.socket = s, !.rs[s] = "open"]) IN
                 /\ Commit(st, [socks EXCEPT ![s].rs = "open",
                                             ![st.socket].readers = @ + 1])
                 /\ lastOp' = [Op("resume", <<>>, st) EXCEPT
                                 !.res = "connected", !.sock = s,
                                 !.attempts = run.attempts]
       /\ located' = Last2(Append(located,
                                  [result |-> run.result, path |-> run.path]))
  /\ tListeners' = on(tListeners, "close", "IpcTransport.onClose")
  /\ pending' = pending - 1
  /\ UNCHANGED env

\* getSocket() threw: the connect() that awaited it is rejected.
ConnectFail ==
  /\ Alive /\ pending > 0
  /\ LET run == getSocket(env) IN
       /\ run.result # "socket"
       /\ lastOp' = [Op("resume", <<>>, St0) EXCEPT
                       !.res = run.result, !.attempts = run.attempts]
       /\ located' = Last2(Append(located,
                                  [result |-> run.result, path |-> run.path]))
  /\ pending' = pending - 1
  /\ UNCHANGED <<env, socket, socks, tListeners>>

\* send(...args), called on the transport.
Send(args) ==
  /\ Alive
  /\ LET st == send(St0, Operation(args), Payload(args)) IN
       /\ Commit(st, socks)
       /\ lastOp' = Op("send", args, st)
  /\ UNCHANGED <<env, tListeners, pending, located>>

\* ping()
Ping ==
  /\ Alive
  /\ LET st == send(St0, PING, JStr(Txt(<<"u","u","i","d">>))) IN
       /\ Commit(st, socks)
       /\ lastOp' = Op("ping", <<>>, st)
  /\ UNCHANGED <<env, tListeners, pending, located>>

\* close() when this.socket is undefined: the promise is resolved.
CloseNow ==
  /\ Alive
  /\ socket = 0
  /\ lastOp' = [Op("close", <<>>, Effect(St0, [k |-> "resolve"])) EXCEPT
                  !.res = "resolved"]
  /\ UNCHANGED <<env, socket, socks, tListeners, pending, located>>

\* close() when this.socket is set: a once("close") listener is registered
\* on the stream and the stream ended.
CloseAwait ==
  /\ Alive
  /\ socket # 0
  /\ socks[socket].closers < MaxCloses
  /\ LET st == Effect(St0, [k |-> "end", sock |-> socket]) IN
       /\ Commit(st, [socks EXCEPT
                        ![socket].closers = @ + 1,
                        ![socket].rs = IF @ = "open" THEN "readOnly" ELSE @])
       /\ lastOp' = [Op("close", <<>>, st) EXCEPT
                       !.res = "pending", !.sock = socket]
  /\ UNCHANGED <<env, tListeners, pending, located>>

\* The "close" event of a stream: the peer closed it, after the transport
\* ended it (readOnly) or on its own (open).  The once("close") listeners
\* that close() registered are called.
SocketClosed(s) ==
  /\ Alive
  /\ socks[s].rs \in {"open", "readOnly"}
  /\ LET st == CallClosers([St0 EXCEPT !.rs[s] = "closed"], socks[s].closers) IN
       /\ Commit(st, [socks EXCEPT ![s].rs = "closed", ![s].closers = 0])
       /\ lastOp' = [Op("closed", <<>>, st) EXCEPT !.sock = s]
  /\ UNCHANGED <<env, tListeners, pending, located>>

\* The "readable" event of a stream s, when avail are the bytes this.socket
\* has to read: the listeners connect() registered on s are called.
Readable(s, avail) ==
  /\ Alive
  /\ socks[s].rs \in {"open", "readOnly"}
  /\ socks[s].readers > 0
  /\ isConnected(St0) \/ avail = <<>>
  /\ LET st == CallReaders(St0, socks[s].readers, avail) IN
       /\ Commit(st, socks)
       /\ lastOp' = [Op("readable", <<>>, st) EXCEPT
                       !.sock = s, !.data = Drained(St0, avail),
                       !.status = Decode(Drained(St0, avail)).status]
  /\ UNCHANGED <<env, tListeners, pending, located>>

Next ==
  \/ ConnectNow
  \/ ConnectAwait
  \/ ConnectResume
  \/ ConnectFail
  \/ \E args \in RunSendArgs : Send(args)
  \/ Ping
  \/ CloseNow
  \/ CloseAwait
  \/ \E s \in Sockets : SocketClosed(s)
  \/ \E s \in Sockets, avail \in Drains : Readable(s, avail)

Spec == Init /\ [][Next]_vars

\* ------------------------------------------------------------------------
\* The locator's runs: connect() in every environment of the bounds
\* ------------------------------------------------------------------------

InitLocate == env \in Envs(Platforms, MaxReachable) /\ Constructed

NextLocate == ConnectAwait \/ ConnectResume \/ ConnectFail

SpecLocate == InitLocate /\ [][NextLocate]_vars


\* ------------------------------------------------------------------------
\* The codec's runs: what send() writes is fed back to the read loop
\* ------------------------------------------------------------------------

\* A transport that holds an open stream and has written nothing.
Looped ==
  [socket |-> 1, rs |-> [s \in Sockets |-> IF s = 1 THEN "open" ELSE "none"],
   first |-> [s \in Sockets |-> <<>>], fx |-> <<>>, err |-> ""]

\* The packets of an operation's "write" effects, in order.
Written(fx) ==
  LET w == SelectSeq(fx, LAMBDA e : e.k = "write")
  IN [i \in 1..Len(w) |-> w[i].pkt]

InitCodec == env \in {e \in RunEnvs : e.listening # {}} /\ Constructed

\* send(...args) on the open stream: data is what it wrote.
Encode(args) ==
  /\ lastOp.op \in {"init", "decode"}
  /\ LET w == Written(send(Looped, Operation(args), Payload(args)).fx) IN
       lastOp' = [NoOp EXCEPT !.op = "encode", !.args = args,
                              !.data = IF w = <<>> THEN <<>> ELSE w[1]]
  /\ UNCHANGED <<env, socket, socks, tListeners, pending, located>>

\* The bytes written are one read cycle of a "readable" listener.
Feed ==
  /\ lastOp.op = "encode"
  /\ LET d == Decode(Drained(Looped, lastOp.data)) IN
       lastOp' = [lastOp EXCEPT !.op = "decode", !.status = d.status,
                                !.dec = <<d.op, d.v>>,
                                !.fx = onReadable(Looped, lastOp.data).fx]
  /\ UNCHANGED <<env, socket, socks, tListeners, pending, located>>

NextCodec == (\E args \in SendArgs : Encode(args)) \/ Feed

SpecCodec == InitCodec /\ [][NextCodec]_vars

\* ------------------------------------------------------------------------
\* The event channel's runs: on() and emit() called on the transport
\* ------------------------------------------------------------------------

\* The callbacks an application registers, and the events of the transport.
Handlers == {"h1", "h2"}
Topics == {"message", "close", "ping", "open"}

\* The values given to emit().
EmitValues == {Undefined, JNull, JNum(1), Message("ACTIVITY_JOIN", JNum(1))}

\* The callbacks registered on the transport, over all events.
Registered ==
  Len(tListeners.message) + Len(tListeners.close) + Len(tListeners.ping)
    + Len(tListeners.open)

InitEmitter == env \in {e \in RunEnvs : e.listening # {}} /\ Constructed

\* on(event, callback)
Subscribe(event, callback) ==
  /\ Alive
  /\ Registered <= MaxListeners
  /\ tListeners' = on(tListeners, event, callback)
  /\ lastOp' = [NoOp EXCEPT !.op = "on", !.args = <<event, callback>>]
  /\ UNCHANGED <<env, socket, socks, pending, located>>

\* emit(event, val)
Publish(event, val) ==
  /\ Alive
  /\ LET st == emit(St0, event, val) IN
       /\ Commit(st, socks)
       /\ lastOp' = Op("emit", <<event, val>>, st)
  /\ UNCHANGED <<env, tListeners, pending, located>>

NextEmitter ==
  \/ \E event \in Topics, callback \in Handlers : Subscribe(event, callback)
  \/ \E event \in Topics, val \in EmitValues : Publish(event, val)

SpecEmitter == InitEmitter /\ [][NextEmitter]_vars

\* ------------------------------------------------------------------------
\* Reading effects
\* ------------------------------------------------------------------------

\* The effects of a kind, and of a kind and topic.
Of(fx, kind) == SelectSeq(fx, LAMBDA e : e.k = kind)
OfTopic(fx, kind, topic) == SelectSeq(Of(fx, kind), LAMBDA e : e.topic = topic)

\* The "Malformed packet" diagnostics among the effects.
Diagnostics(fx) ==
  SelectSeq(OfTopic(fx, "client.emit", "debug"), LAMBDA e : e.val = "Malformed packet")

\* ------------------------------------------------------------------------
\* Claims
\* ------------------------------------------------------------------------

\* C3 (round trip): for every operation 0..4 and every JSON payload, the
\* falsy ones included, the bytes send(op, payload) writes are accepted by
\* the read loop's decoder and yield the same operation and an equal payload.
RoundTrip ==
  (lastOp.op = "decode" /\ Len(lastOp.args) = 2)
    => /\ lastOp.status = "ok"
       /\ lastOp.dec = <<Operation(lastOp.args), Payload(lastOp.args)>>

\* C4 (empty payload): send(op) without a payload writes exactly 8 bytes, the
\* operation and a declared length of 0, and the read loop decodes these 8
\* bytes to the operation instead of reporting a malformed packet.
EmptyPayloadDecodes ==
  (lastOp.op = "decode" /\ Len(lastOp.args) = 1)
    => /\ lastOp.data = writeUInt32LE(lastOp.args[1]) \o <<0, 0, 0, 0>>
       /\ lastOp.status = "ok"
       /\ lastOp.dec[1] = lastOp.args[1]
       /\ Diagnostics(lastOp.fx) = <<>>


\* ---- what the claims say of a read cycle ----

\* The payload length a header declares: bytes 4-7, least significant first.
DeclaredLength(data) ==
  data[5] + 256 * data[6] + 65536 * data[7] + 16777216 * data[8]

\* The operation a header names: bytes 0-3, least significant first.
DeclaredOp(data) ==
  data[1] + 256 * data[2] + 65536 * data[3] + 16777216 * data[4]

\* A valid frame: a header, and a payload of the declared length that is a
\* JSON text.
IsFrame(data) ==
  /\ Len(data) >= 8
  /\ DeclaredLength(data) = Len(data) - 8
  /\ JSONparse(SubSeq(data, 9, Len(data))).ok

PayloadOf(data) == JSONparse(SubSeq(data, 9, Len(data))).v

\* The last operation was a read cycle that drained the bytes of a valid
\* frame of the operation.
ReadFrame(op) ==
  /\ lastOp.op = "readable"
  /\ IsFrame(lastOp.data)
  /\ DeclaredOp(lastOp.data) = op

\* The close notifications the application got in the last operation.
CloseNotifications == OfTopic(lastOp.fx, "client.emit", "close")

\* The close() promises the last operation resolved.
Resolved == Of(lastOp.fx, "resolve")

\* C1 (CLOSE convergence): each received CLOSE frame, and each close() on a
\* live connection when its stream has closed, leaves the transport without
\* a socket and gives the application exactly one close notification.
CloseConvergence ==
  /\ ReadFrame(CLOSE) => socket = 0 /\ Len(CloseNotifications) = 1
  /\ (lastOp.op = "closed" /\ Resolved # <<>>)
       => socket = 0 /\ Len(CloseNotifications) = Len(Resolved)

\* C2 (PING auto-reply): for every valid PING frame read, whatever its JSON
\* payload (0, false, null and "" included) and however often connect() was
\* called, exactly one frame is written, a PONG whose payload is the PING's,
\* and "ping" is emitted exactly once, without a payload.
PingAutoReply ==
  ReadFrame(PING) =>
    /\ Written(lastOp.fx) =
         <<Wire(PONG, JSONstringify(PayloadOf(lastOp.data)))>>
    /\ Len(OfTopic(lastOp.fx, "emit", "ping")) = 1
    /\ OfTopic(lastOp.fx, "emit", "ping")[1].val = Undefined

\* The events a read cycle may raise besides the diagnostics: what the
\* transport emits, and what the Client emits other than "debug".
Events(fx) ==
  Of(fx, "emit") \o
  SelectSeq(Of(fx, "client.emit"), LAMBDA e : e.topic # "debug")

\* C5 (header integrity): a read cycle that drains at least 8 bytes whose
\* declared payload length differs from the total length minus 8 emits the
\* malformed-packet diagnostic, raises no message, close or ping event and
\* writes no frame.
HeaderIntegrity ==
  ( /\ lastOp.op = "readable"
    /\ Len(lastOp.data) >= 8
    /\ DeclaredLength(lastOp.data) # Len(lastOp.data) - 8 )
  => /\ Len(Diagnostics(lastOp.fx)) = 1
     /\ Events(lastOp.fx) = <<>>
     /\ Written(lastOp.fx) = <<>>

\* A declared length was wrong in a high byte only, and the cycle rejected.
HeaderIntegrityWitness ==
  /\ lastOp.op = "readable"
  /\ Len(lastOp.data) >= 8
  /\ DeclaredLength(lastOp.data) # Len(lastOp.data) - 8
  /\ DeclaredLength(lastOp.data) % 256 = Len(lastOp.data) - 8
  /\ Diagnostics(lastOp.fx) # <<>>


\* ---- what the claims say of the locator ----

\* The rule applies to the platform of the environment.
Applies(r) == env.platform \in pathList[r].platform

\* The path of a rule and an id, where the rule applies.
PathOf(r, i) ==
  [dir |-> IF pathList[r].pipe THEN PipeDir
           ELSE <<Prefix(env)>> \o pathList[r].sub,
   id |-> i]

IsCandidate(p) ==
  \E r \in 1..Len(pathList), i \in 0..(IdCount - 1) : Applies(r) /\ PathOf(r, i) = p

\* The place of a candidate in the order of the search: rules in the order
\* of their declaration, and the ids of a rule in ascending order.
Rank(p) ==
  LET r == CHOOSE q \in 1..Len(pathList) :
             Applies(q) /\ PathOf(q, p.id) = p
  IN r * IdCount + p.id

\* connect() resumed after a search.
Searched == lastOp.op = "resume"

\* No candidate of the environment is reachable.
Unreachable == env.listening = {}

\* C6 (failed connect): when no candidate is reachable, the runtime
\* directory or a candidate's directory missing included, connect() fails
\* with the connection-not-found error, the transport keeps no socket, no
\* "open" is emitted, no handshake written, no listener registered, and the
\* search is not started again.
FailedConnect ==
  [][ (lastOp'.op = "resume" /\ Unreachable)
      => /\ lastOp'.res = "Could not connect"
         /\ socket' = 0
         /\ lastOp'.fx = <<>>
         /\ socks' = socks
         /\ tListeners' = tListeners
         /\ pending' = pending - 1 ]_vars

\* C7 (discovery order): a search attempts only candidates of the rules that
\* apply to the platform, on a platform other than win32 only where the
\* directory exists, in the order of the rules and of ascending ids; where a
\* candidate is reachable it ends with the connection to the first reachable
\* one, which is its last attempt; and two searches end alike.
DiscoveryOrder ==
  /\ Searched =>
       LET att == lastOp.attempts IN
       /\ \A k \in 1..Len(att) :
            /\ IsCandidate(att[k])
            /\ env.platform # "win32" => att[k].dir \in env.dirs
       /\ \A k \in 1..(Len(att) - 1) : Rank(att[k]) < Rank(att[k + 1])
       /\ ~Unreachable => lastOp.res = "connected"
       /\ lastOp.res = "connected" =>
            /\ att # <<>>
            /\ att[Len(att)] \in env.listening
            /\ \A k \in 1..(Len(att) - 1) : att[k] \notin env.listening
            /\ \A p \in env.listening : Rank(att[Len(att)]) <= Rank(p)
            /\ located[Len(located)].path = <<att[Len(att)]>>
  /\ \A i, j \in 1..Len(located) : located[i] = located[j]

\* Two searches chose the second rule's candidate that is the first of two
\* reachable ones, after attempts that failed, with a directory missing.
DiscoveryOrderWitness ==
  /\ Searched /\ lastOp.res = "connected"
  /\ Len(located) = 2
  /\ Cardinality(env.listening) = 2
  /\ Len(lastOp.attempts) > 1
  /\ env.platform = "linux"
  /\ <<Prefix(env), "snap.discord">> \notin env.dirs

\* C8 (send without a connection): without a socket, send() writes nothing,
\* throws nothing and leaves the transport as it was, and a connect() that
\* succeeds later writes the handshake alone; with a socket, send() writes
\* exactly one frame, of its operation, to that socket.
SendWithoutConnection ==
  [][ /\ lastOp'.op = "send" =>
           IF socket = 0
           THEN /\ Written(lastOp'.fx) = <<>>
                /\ lastOp'.err = ""
                /\ socket' = 0
                /\ socks' = socks
                /\ tListeners' = tListeners
                /\ pending' = pending
           ELSE /\ Len(Of(lastOp'.fx, "write")) = 1
                /\ Of(lastOp'.fx, "write")[1].sock = socket
                /\ LET pkt == Written(lastOp'.fx)[1] IN
                     /\ DeclaredOp(pkt) = Operation(lastOp'.args)
                     /\ DeclaredLength(pkt) = Len(pkt) - 8
                /\ socket' = socket
      /\ (lastOp'.op \in {"connect", "resume"} /\ lastOp'.res = "connected") =>
           /\ Len(Written(lastOp'.fx)) = 1
           /\ DeclaredOp(Written(lastOp'.fx)[1]) = HANDSHAKE ]_vars

\* send() with a payload was called on a transport without a socket.
SendWithoutConnectionWitness ==
  /\ lastOp.op = "send" /\ Len(lastOp.args) = 2
  /\ socket = 0
  /\ Written(lastOp.fx) = <<>>

\* Drained bytes that are no frame: 1 to 7 bytes, a declared length that
\* differs from the payload's, or a payload that does not parse.
IsMalformed(data) == data # <<>> /\ ~IsFrame(data)

\* The read cycle of lastOp dispatched the frame it drained.
Dispatched(op) ==
  LET data == op.data
      o == DeclaredOp(data)
      ev == Of(op.fx, "emit")
  IN /\ Diagnostics(op.fx) = <<>>
     /\ o = FRAME => Len(ev) = 1 /\ ev[1].topic = "message"
                     /\ ev[1].val = PayloadOf(data)
     /\ o = CLOSE => Len(ev) = 1 /\ ev[1].topic = "close"
                     /\ ev[1].val = PayloadOf(data)
     /\ o = PING => Len(ev) = 1 /\ ev[1].topic = "ping"
                    /\ Len(Written(op.fx)) = 1
     /\ o \notin {FRAME, CLOSE, PING} => ev = <<>>

\* C9 (malformed input is swallowed): a read cycle that drains malformed
\* bytes emits exactly one malformed-packet diagnostic, raises no event,
\* writes no frame, throws nothing and leaves the socket and the listeners in
\* place; a valid frame drained by the next read cycle is dispatched; a read
\* cycle that drains no byte emits no diagnostic.
MalformedSwallowed ==
  [][ /\ (lastOp'.op = "readable" /\ IsMalformed(lastOp'.data)) =>
           /\ Len(Diagnostics(lastOp'.fx)) = 1
           /\ Events(lastOp'.fx) = <<>>
           /\ Written(lastOp'.fx) = <<>>
           /\ lastOp'.err = ""
           /\ socket' = socket
           /\ socks' = socks
           /\ tListeners' = tListeners
      /\ (lastOp'.op = "readable" /\ lastOp'.data = <<>>) =>
           lastOp'.fx = <<>>
      /\ ( /\ lastOp.op = "readable" /\ IsMalformed(lastOp.data)
           /\ lastOp'.op = "readable" /\ IsFrame(lastOp'.data) ) =>
           Dispatched(lastOp') ]_vars

\* A read cycle drained 5 bytes on a connected transport.
MalformedSwallowedWitness ==
  /\ lastOp.op = "readable" /\ Len(lastOp.data) = 5
  /\ Len(Diagnostics(lastOp.fx)) = 1
  /\ socket # 0 /\ socks[socket].readers > 0

\* The bytes of the handshake frame of the client 123.
HandshakeFrame ==
  <<0, 0, 0, 0, 25, 0, 0, 0>> \o
  Txt(<<"{", "\"", "v", "\"", ":", "1", ",", "\"", "c", "l", "i", "e", "n",
        "t", "_", "i", "d", "\"", ":", "\"", "1", "2", "3", "\"", "}">>)

\* The places of the effects of a kind among the effects.
Places(fx, kind) == {i \in 1..Len(fx) : fx[i].k = kind}

\* C10 (connect ordering): a connect() that succeeds emits "open", then
\* writes the handshake frame {v: 1, client_id}, then registers the read
\* loop; the handshake is the first frame ever written to a stream, and a
\* stream has a read loop only once the handshake is written.
ConnectOrdering ==
  /\ (lastOp.op \in {"connect", "resume"} /\ lastOp.res = "connected") =>
       LET fx == lastOp.fx
           opens == {i \in Places(fx, "emit") : fx[i].topic = "open"}
       IN /\ Cardinality(opens) = 1
          /\ Cardinality(Places(fx, "write")) = 1
          /\ Cardinality(Places(fx, "socket.on")) = 1
          /\ \A o \in opens, w \in Places(fx, "write"),
                r \in Places(fx, "socket.on") :
               /\ o < w /\ w < r
               /\ fx[w].pkt = HandshakeFrame
               /\ fx[w].sock = socket /\ fx[r].sock = socket
  /\ \A s \in Sockets :
       /\ socks[s].rs # "none" => socks[s].first = <<HANDSHAKE>>
       /\ socks[s].readers > 0 => socks[s].first = <<HANDSHAKE>>

\* A second stream was connected while send() and the first stream were in
\* use.
ConnectOrderingWitness ==
  /\ lastOp.op = "resume" /\ lastOp.res = "connected"
  /\ lastOp.sock = 2
  /\ socks[1].first = <<HANDSHAKE>>


\* ---- what the claims say of the streams ----

\* The streams the transport created that are not closed.
Unclosed == {s \in Sockets : socks[s].rs \in {"open", "readOnly"}}

\* C11 (one connection at a time): in every state, with connect() called
\* again while a search is pending and with a reconnect after a CLOSE frame,
\* at most one stream that the transport created is not closed, and a stream
\* that is not closed is the one the transport holds.
SingleConnection ==
  /\ Cardinality(Unclosed) <= 1
  /\ \A s \in Unclosed : s = socket

\* C12 (single reader): while the transport is connected, exactly one
\* "readable" listener is registered on its stream, and no listener of
\* another stream can still be called and read from this.socket.
SingleReader ==
  isConnected(St0) =>
    /\ socks[socket].readers = 1
    /\ \A s \in Unclosed \ {socket} : socks[s].readers = 0


\* C13 (close() protocol): without a socket close() resolves at once, emits
\* nothing and writes nothing; with a socket it ends the stream and resolves
\* nothing; when the stream's "close" event comes, each pending close()
\* emits "close" with the reason {code: -1, message: "Closed by client"},
\* the application is notified with that reason, this.socket is cleared and
\* the promise resolved, in this order; no other step resolves a close().
CloseProtocol ==
  [][ /\ (lastOp'.op = "close" /\ socket = 0) =>
           /\ lastOp'.fx = <<[k |-> "resolve"]>>
           /\ socket' = 0 /\ socks' = socks /\ tListeners' = tListeners
      /\ (lastOp'.op = "close" /\ socket # 0) =>
           /\ lastOp'.fx = <<[k |-> "end", sock |-> socket]>>
           /\ socket' = socket
           /\ socks'[socket].closers = socks[socket].closers + 1
      /\ lastOp'.op \notin {"close", "closed"} =>
           Places(lastOp'.fx, "resolve") = {}
      /\ lastOp'.op = "closed" =>
           LET fx == lastOp'.fx
               n == socks[lastOp'.sock].closers
               emits == {i \in Places(fx, "emit") : fx[i].topic = "close"}
               resolves == Places(fx, "resolve")
               notes == {i \in Places(fx, "client.emit") :
                           fx[i].topic = "close" /\ fx[i].val = ClosedByClient}
           IN /\ Cardinality(resolves) = n
              /\ Cardinality(emits) = n
              /\ \A e \in emits : fx[e].val = ClosedByClient
              /\ \A r \in resolves :
                   \E e \in emits, c \in notes :
                     /\ e < c /\ c < r
                     /\ \A r2 \in resolves : ~(e < r2 /\ r2 < r)
              /\ n > 0 => socket' = 0
              /\ socks'[lastOp'.sock].closers = 0 ]_vars

\* The stream closed after two close() calls, and both were resolved.
CloseProtocolWitness ==
  /\ lastOp.op = "closed"
  /\ Len(Resolved) = 2
  /\ socket = 0
  /\ socks[lastOp.sock].rs = "closed"


\* C14 (event channel delivery): an emit(topic, data) that returns has
\* called every callback registered for the topic exactly once, within the
\* emit, in the order of registration and with the data; it has called no
\* callback of another topic, and with no callback registered it did nothing.
EmitDelivery ==
  (lastOp.op = "emit" /\ lastOp.err = "") =>
    LET calls == Of(lastOp.fx, "call")
        registered == tListeners[lastOp.args[1]]
    IN /\ Len(calls) = Len(registered)
       /\ \A i \in 1..Len(calls) :
            /\ calls[i].callback = registered[i]
            /\ calls[i].val = lastOp.args[2]
       /\ Len(Of(lastOp.fx, "emit")) = 1
       /\ registered = <<>> => Len(lastOp.fx) = 1

\* An emit called the three callbacks of its topic, while a callback is
\* registered for another topic.
EmitDeliveryWitness ==
  /\ lastOp.op = "emit" /\ lastOp.err = ""
  /\ Len(Of(lastOp.fx, "call")) = 3
  /\ \E t \in Topics \ {lastOp.args[1]} : tListeners[t] # <<>>


\* What a read cycle did, for the bytes of a frame.
Cycle(data, fx) == [data |-> data, fx |-> fx]

\* C15 (read buffer accumulation): when the bytes of one valid frame are
\* drained in two read cycles, each a non-empty part of the frame, no cycle
\* emits a malformed-packet diagnostic and the second one decodes and
\* dispatches the frame.
BufferAccumulation ==
  [][ ( /\ lastOp.op = "readable" /\ lastOp'.op = "readable"
        /\ lastOp.sock = lastOp'.sock
        /\ lastOp.data # <<>> /\ lastOp'.data # <<>>
        /\ IsFrame(lastOp.data \o lastOp'.data) )
      => /\ Diagnostics(lastOp.fx) = <<>>
         /\ Events(lastOp.fx) = <<>>
         /\ Dispatched(Cycle(lastOp.data \o lastOp'.data, lastOp'.fx)) ]_vars

\* The bytes hold a valid frame and further bytes after it.
HasTrailing(data) ==
  /\ Len(data) > 8
  /\ Len(data) > 8 + DeclaredLength(data)
  /\ IsFrame(SubSeq(data, 1, 8 + DeclaredLength(data)))

FirstFrame(data) == SubSeq(data, 1, 8 + DeclaredLength(data))

\* C16 (one frame per read cycle): a read cycle that drains a valid frame
\* followed by further bytes decodes and dispatches the first frame, and the
\* further bytes raise no event.
FirstFrameDispatched ==
  (lastOp.op = "readable" /\ HasTrailing(lastOp.data))
    => Dispatched(Cycle(FirstFrame(lastOp.data), lastOp.fx))

\* C17 (dispatch by operation): a read cycle that drains a valid frame of
\* operation 1 emits "message" once, with the parsed payload, emits nothing
\* else, writes nothing and keeps this.socket; one that drains a valid frame
\* of operation 4 or 0 raises no event, writes nothing, throws nothing and
\* leaves the socket and the streams as they were.
DispatchByOperation ==
  [][ (lastOp'.op = "readable" /\ IsFrame(lastOp'.data)) =>
        LET fx == lastOp'.fx
            payload == PayloadOf(lastOp'.data)
        IN /\ DeclaredOp(lastOp'.data) = FRAME =>
                /\ Of(fx, "emit") =
                     <<[k |-> "emit", topic |-> "message", val |-> payload]>>
                /\ Written(fx) = <<>>
                /\ Diagnostics(fx) = <<>>
                /\ socket' = socket
           /\ DeclaredOp(lastOp'.data) \in {PONG, HANDSHAKE} =>
                /\ Events(fx) = <<>>
                /\ Written(fx) = <<>>
                /\ Diagnostics(fx) = <<>>
                /\ lastOp'.err = ""
                /\ socket' = socket /\ socks' = socks ]_vars

\* A read cycle drained a message frame whose payload is an object, and one
\* "message" was emitted.
DispatchByOperationWitness ==
  /\ ReadFrame(FRAME)
  /\ Tag(PayloadOf(lastOp.data)) = "obj"
  /\ Len(OfTopic(lastOp.fx, "emit", "message")) = 1
  /\ socket # 0

\* C18 (peer hang-up): once the peer has closed the stream the transport
\* holds, a connect() runs the search for a new stream and does not go on
\* with the closed one.
HangUpReconnects ==
  [][ ( /\ socket # 0 /\ socks[socket].rs = "closed"
        /\ lastOp'.op = "connect" )
      => lastOp'.res = "pending" ]_vars

\* C19 (no write after shutdown): no frame is written to a stream that
\* close() has ended, by send(), ping() or a read cycle.
NoWriteAfterEnd ==
  lastOp.op \in {"send", "ping", "readable"} =>
    \A i \in 1..Len(Of(lastOp.fx, "write")) :
      Of(lastOp.fx, "write")[i].rs # "readOnly"

\* C20 (close notifications are genuine): the application gets "close" only
\* from a read cycle that drained a CLOSE frame or from the stream's "close"
\* event after close(), and the transport then holds no socket.
GenuineClose ==
  CloseNotifications # <<>> =>
    /\ ReadFrame(CLOSE) \/ lastOp.op = "closed"
    /\ socket = 0

====
